---- MODULE Spec2Model ----
(***************************************************************************)
(* A model of the clog commit log of komuw/shifta: segment (segment.go),   *)
(* cleaner (cleaner.go) and Clog (commitlog.go).                           *)
(*                                                                         *)
(* Scale.  uint64 arithmetic is arithmetic modulo Wrap (2^64 in the code). *)
(* Wall-clock readings, payload sizes and the read ceiling are small       *)
(* numbers: clock readings and file sizes stay far below Wrap, as they do  *)
(* in the program, while a uint64 subtraction or sum can still wrap.       *)
(* A byte is a number that identifies it, so that contents can be compared *)
(* (bytes written by Append are 1, 2, 3, ...; bytes found in the directory *)
(* at open are negative).                                                  *)
(*                                                                         *)
(* Atomicity.  Append, Clean and Read each run under Clog.mu for their     *)
(* whole body, so each is one action here.                                 *)
(***************************************************************************)
EXTENDS Integers, Sequences, FiniteSets, TLC

\* ---------------------------------------------------------------- bounds
MaxTime == 2        \* wall-clock readings are 0..MaxTime
MaxSegs == 3        \* segment objects ever created by one log
MaxBytes == 3       \* payload bytes ever handed to Append
MaxFaults == 1      \* injected I/O faults in one run
MaxProcs == 2       \* threads that call the log concurrently
MaxSegOps == 2      \* segment locks one call takes, one after the other

\* ------------------------------------------------------ program constants
Wrap == 64               \* the modulus of uint64 arithmetic: 2^64, scaled
internalMaxToRead == 2   \* commitlog.go: 64 * 1000 * 1000, scaled

Times == 0 .. MaxTime
\* the lengths of the payloads Append is called with
Payloads == {1, 2}
\* the threads, and the segments whose locks they take
Procs == 1 .. MaxProcs
SegIds == 1 .. MaxSegs

VARIABLES
    files,        \* the directory: file name -> [ino, data]
    now,          \* the wall clock, what tNow() returns
    initialized,  \* Clog.initialized (FALSE: New has not returned a log)
    maxSegBytes,  \* Clog.maxSegBytes (segment.maxSegBytes of every segment)
    cl,           \* Clog.cl: [maxLogBytes, maxLogAge]
    segments,     \* Clog.segments: the segment objects, in list order
    nextId,       \* identities handed to segment objects so far
    nextByte,     \* payload bytes handed to Append so far
    faults,       \* I/O faults injected so far
    written,      \* history: bytes found at open, then every payload of a
                  \* successful Append, in completion order
    clean_since,  \* history: "none", "ok" or "failed": Clean calls so far
    chain,        \* history of the consumer that resumes from the
                  \* lastReadOffset it was last given: that offset (-1
                  \* before its first call) and the bytes it was given
    res,          \* the last call and what it returned
    mu,           \* Clog.mu: the writer that has it or waits for the
                  \* readers to leave (0: none), the writers and readers
                  \* that wait, the readers inside
    smu,          \* segment.mu of every segment: its writer and readers
    pc,           \* where each thread is in its call
    call,         \* the call each thread is in
    ops,          \* the segment locks each thread has yet to take in its call
    hold          \* the segment whose lock each thread holds (0: none)

dataVars == << files, now, initialized, maxSegBytes, cl, segments, nextId,
               nextByte, faults, written, clean_since, chain, res >>

lockVars == << mu, smu, pc, call, ops, hold >>

vars == << files, now, initialized, maxSegBytes, cl, segments, nextId,
           nextByte, faults, written, clean_since, chain, res,
           mu, smu, pc, call, ops, hold >>

\* ------------------------------------------------------------ arithmetic
\* uint64 addition and subtraction
Add64(a, b) == (a + b) % Wrap
Sub64(a, b) == (a - b + Wrap) % Wrap
\* the conversion int(x) of a uint64 (two's complement)
ToInt(x) == IF x >= Wrap \div 2 THEN x - Wrap ELSE x

RECURSIVE Concat(_)
Concat(ss) == IF ss = << >> THEN << >> ELSE Head(ss) \o Concat(Tail(ss))

RECURSIVE SumSeq(_)
SumSeq(s) == IF s = << >> THEN 0 ELSE Head(s) + SumSeq(Tail(s))

SetMax(S) == CHOOSE x \in S : \A y \in S : y <= x

\* ------------------------------------------------------------ file names
\* A file name is the sequence of the characters before ".log"; the
\* characters 0..9 are the decimal digits, any other number is a letter.
RECURSIVE FormatUint(_)
FormatUint(n) == IF n < 10 THEN << n >> ELSE Append(FormatUint(n \div 10), n % 10)

\* strconv.ParseUint(s, 10, 64): -1 stands for its error (empty string, a
\* character that is not a digit, or a value that does not fit uint64)
RECURSIVE ParseDigits(_, _)
ParseDigits(s, acc) ==
    IF s = << >> THEN acc
    ELSE IF Head(s) > 9 \/ acc * 10 + Head(s) >= Wrap THEN -1
    ELSE ParseDigits(Tail(s), acc * 10 + Head(s))
ParseUint(s) == IF s = << >> THEN -1 ELSE ParseDigits(s, 0)

\* filepath.Ext(name) == ".log"; a name that ends with the character -1 is
\* the name of a file with another extension
HasLogExt(name) == name = << >> \/ name[Len(name)] >= 0

\* ------------------------------------------------------------- directory
Put(f, k, v) == [x \in (DOMAIN f) \cup {k} |-> IF x = k THEN v ELSE f[x]]
Remove(f, k) == [x \in (DOMAIN f) \ {k} |-> f[x]]
NoFiles == [x \in {} |-> 0]

\* a write through an open handle on inode i (O_APPEND): the bytes land at
\* the end of the file; an unlinked inode is not visible in the directory
WriteIno(fs, i, b) ==
    [n \in DOMAIN fs |-> IF fs[n].ino = i
                          THEN [fs[n] EXCEPT !.data = @ \o b] ELSE fs[n]]
\* f.Truncate(size) through an open handle on inode i
\* (a file shorter than size is extended with zero bytes)
TruncateIno(fs, i, size) ==
    [n \in DOMAIN fs |->
        IF fs[n].ino = i
        THEN [fs[n] EXCEPT !.data =
                 IF size <= Len(@) THEN SubSeq(@, 1, size)
                 ELSE @ \o [k \in 1 .. (size - Len(@)) |-> 0]]
        ELSE fs[n]]

\* --------------------------------------------------------------- segment
\* newSegment(path, baseOffset, maxSegBytes): opens or creates the file
\* <baseOffset>.log; id is the identity of the new object.
\* Gives the segment and the directory.  got is history: the payloads of the
\* Appends on this object that returned nil.
newSegment(fs, baseOffset, id, t) ==
    LET filePath == FormatUint(baseOffset)
        fs1 == IF filePath \in DOMAIN fs THEN fs
               ELSE Put(fs, filePath, [ino |-> id, data |-> << >>])
        age == IF baseOffset > t THEN 0 ELSE Sub64(t, baseOffset)
    IN [seg |-> [id |-> id,
                 filePath |-> filePath,
                 baseOffset |-> baseOffset,
                 currentSegBytes |-> Len(fs1[filePath].data),
                 f |-> fs1[filePath].ino,
                 age |-> age,
                 closed |-> FALSE,
                 got |-> << >>],
        files |-> fs1]

\* a segment that is full only once it is beyond max_seg_bytes
IsFullBeyond(s) == s.currentSegBytes > maxSegBytes

\* segment.IsFull
IsFull(s) == s.currentSegBytes >= maxSegBytes

\* the outcomes of one segment.Append; an outcome of f.Write is the number
\* of bytes that reached the file and whether Write returned an error
AppendFaults == {"none", "write", "short", "truncate", "sync"}

\* segment.Append(b) at clock reading t under fault; landed is the number of
\* bytes of b that reach the file when the write is cut.
\* Gives the segment, the directory and the error.
segAppend(s, fs, b, t, fault, landed) ==
    IF s.f = 0
    THEN [seg |-> s, files |-> fs, err |-> "panic"]
    ELSE IF s.closed
    THEN [seg |-> s, files |-> fs, err |-> "errSegmentWrite"]
    ELSE IF fault = "write"
    THEN [seg |-> s, files |-> WriteIno(fs, s.f, SubSeq(b, 1, landed)),
          err |-> "errSegmentWrite"]
    ELSE IF fault \in {"short", "truncate"}
    THEN LET fs1 == WriteIno(fs, s.f, SubSeq(b, 1, landed))
         IN IF fault = "truncate"
            THEN [seg |-> s, files |-> fs1, err |-> "errPartialWriteTruncate"]
            ELSE [seg |-> s,
                  files |-> TruncateIno(fs1, s.f, s.currentSegBytes),
                  err |-> "nil"]
    ELSE LET s1 == [s EXCEPT !.currentSegBytes = Add64(@, Len(b)),
                             !.age = Sub64(t, s.baseOffset),
                             !.got = IF fault = "sync" THEN @ ELSE @ \o b]
         IN [seg |-> s1, files |-> WriteIno(fs, s.f, b),
             err |-> IF fault = "sync" THEN "errSegmentSync" ELSE "nil"]

\* a close that flushes and closes the file whatever the segment's state
segCloseAgain(s, fault) ==
    IF fault = "sync" THEN [seg |-> s, err |-> "errSegmentSync"]
    ELSE IF fault = "close" THEN [seg |-> s, err |-> "errSegmentClose"]
    ELSE [seg |-> [s EXCEPT !.closed = TRUE], err |-> "nil"]

\* segment.close under fault ("sync" or "close" make it fail)
segClose(s, fault) ==
    IF s.closed THEN [seg |-> s, err |-> "nil"]
    ELSE IF fault = "sync" THEN [seg |-> s, err |-> "errSegmentSync"]
    ELSE IF fault = "close" THEN [seg |-> s, err |-> "errSegmentClose"]
    ELSE [seg |-> [s EXCEPT !.closed = TRUE], err |-> "nil"]

\* segment.Delete under fault ("sync", "close" or "remove" make it fail);
\* os.Remove also fails when no file has the segment's name
segDelete(s, fs, fault) ==
    IF s.f = 0 THEN [seg |-> s, files |-> fs, err |-> "nil"]
    ELSE LET c == segClose(s, fault)
         IN IF c.err # "nil" THEN [seg |-> c.seg, files |-> fs, err |-> c.err]
            ELSE IF fault = "remove" \/ s.filePath \notin DOMAIN fs
            THEN [seg |-> c.seg, files |-> fs, err |-> "errSegmentRemove"]
            ELSE [seg |-> [c.seg EXCEPT !.f = 0],
                  files |-> Remove(fs, s.filePath), err |-> "nil"]

\* segment.Read: os.ReadFile of the name of the handle
segRead(s, fs, fault) ==
    IF s.f = 0 THEN [data |-> << >>, err |-> "panic"]
    ELSE IF fault \/ s.filePath \notin DOMAIN fs
    THEN [data |-> << >>, err |-> "errSegmentRead"]
    ELSE [data |-> fs[s.filePath].data, err |-> "nil"]

\* ------------------------------------------------------------------ Clog
NoRes == [op |-> "init", err |-> "nil", offset |-> 0, max |-> 0,
          data |-> << >>, last |-> 0, ids |-> << >>,
          byBytes |-> << >>, byAge |-> << >>, pass |-> 0, n |-> 0,
          fault |-> "none", args |-> << >>]
NoChain == [last |-> -1, seen |-> {}]

\* the directories a log is opened on: empty; three segments to recover,
\* 0.log, 1.log and 2.log; a mis-named file next to 1.log
InitDirs ==
    { NoFiles,
      (<< 0 >> :> [ino |-> -1, data |-> << -1 >>]) @@
          (<< 1 >> :> [ino |-> -2, data |-> << >>]) @@
          (<< 2 >> :> [ino |-> -3, data |-> << >>]),
      (<< 1 >> :> [ino |-> -1, data |-> << >>]) @@
          (<< 11 >> :> [ino |-> -2, data |-> << >>]) }

\* the arguments New is called with
SegBytesArgs == {1, 2}
LogBytesArgs == {0, 1, 2}
LogAgeArgs == {-1, 0, 1}

\* no log has been built: Clog is its zero value, no thread is in a call
NoLog ==
    /\ now \in Times
    /\ initialized = FALSE
    /\ maxSegBytes = 0
    /\ cl = [maxLogBytes |-> 0, maxLogAge |-> 0]
    /\ segments = << >>
    /\ nextId = 1
    /\ nextByte = 0
    /\ faults = 0
    /\ written = << >>
    /\ clean_since = "none"
    /\ chain = NoChain
    /\ res = NoRes
    /\ mu = [w |-> 0, wq |-> {}, r |-> {}, rq |-> {}]
    /\ smu = [s \in SegIds |-> [w |-> 0, r |-> {}]]
    /\ pc = [p \in Procs |-> "idle"]
    /\ call = [p \in Procs |-> "none"]
    /\ ops = [p \in Procs |-> << >>]
    /\ hold = [p \in Procs |-> 0]

Init == files \in InitDirs /\ NoLog

\* the wall clock: tNow() returns whatever the host's clock shows; the
\* clock can stand still between two calls and can be set back
Tick ==
    /\ \E t \in Times \ {now} : now' = t
    /\ res' = [NoRes EXCEPT !.op = "tick"]
    /\ UNCHANGED << files, initialized, maxSegBytes, cl, segments, nextId,
                    nextByte, faults, written, clean_since, chain >>
    /\ UNCHANGED lockVars

\* lexicographic order of file names, the order of os.ReadDir
RECURSIVE NameLess(_, _)
NameLess(a, b) ==
    IF a = << >> THEN b # << >>
    ELSE IF b = << >> THEN FALSE
    ELSE IF Head(a) # Head(b) THEN Head(a) < Head(b)
    ELSE NameLess(Tail(a), Tail(b))

RECURSIVE ReadDir(_)
ReadDir(names) ==
    IF names = {} THEN << >>
    ELSE LET m == CHOOSE x \in names : \A y \in names \ {x} : NameLess(x, y)
         IN << m >> \o ReadDir(names \ {m})

\* a loop that passes over the entries whose names do not parse
RECURSIVE openLoopSkipping(_, _, _, _)
openLoopSkipping(entries, fs, segs, id) ==
    IF entries = << >> THEN [segs |-> segs, files |-> fs, err |-> "nil"]
    ELSE IF ~HasLogExt(Head(entries)) \/ ParseUint(Head(entries)) < 0
    THEN openLoopSkipping(Tail(entries), fs, segs, id)
    ELSE LET r == newSegment(fs, ParseUint(Head(entries)), id, now)
         IN openLoopSkipping(Tail(entries), r.files, Append(segs, r.seg),
                             id + 1)

\* the loop of Clog.open over the directory entries: one newSegment per
\* entry, until a name does not parse
RECURSIVE openLoop(_, _, _, _)
openLoop(entries, fs, segs, id) ==
    IF entries = << >> THEN [segs |-> segs, files |-> fs, err |-> "nil"]
    ELSE IF ~HasLogExt(Head(entries))
    THEN openLoop(Tail(entries), fs, segs, id)
    ELSE LET n == ParseUint(Head(entries))
         IN IF n < 0
            THEN [segs |-> segs, files |-> fs, err |-> "errParseToInt64"]
            ELSE LET r == newSegment(fs, n, id, now)
                 IN openLoop(Tail(entries), r.files, Append(segs, r.seg), id + 1)

\* sort.Slice by baseOffset: any arrangement of segs that is in order
IsSortOf(sorted, segs) ==
    /\ Len(sorted) = Len(segs)
    /\ {sorted[i] : i \in 1 .. Len(sorted)} = {segs[i] : i \in 1 .. Len(segs)}
    /\ \A i \in 1 .. Len(sorted) - 1 : sorted[i].baseOffset <= sorted[i + 1].baseOffset

Perms(segs) ==
    {[i \in 1 .. Len(segs) |-> segs[p[i]]] :
        p \in {q \in [1 .. Len(segs) -> 1 .. Len(segs)] :
                  \A i, j \in 1 .. Len(segs) : i # j => q[i] # q[j]}}

\* the contents of the files of segs, in list order
FileContents(segs, fs) ==
    Concat([i \in 1 .. Len(segs) |->
              IF segs[i].filePath \in DOMAIN fs
              THEN fs[segs[i].filePath].data ELSE << >>])

\* a test that takes only zero for a bad bound
badCleanerZero(lb, la) == lb = 0 \/ la = 0

\* newCleaner(maxLogBytes, maxLogAge) returns errBadCleaner (maxLogBytes is
\* a uint64, maxLogAge a time.Duration, which is signed)
badCleaner(lb, la) == lb <= 0 \/ la <= 0

\* New(path, maxSegBytes, maxLogBytes, maxLogAge): newCleaner, then open
New(sb, lb, la) ==
    /\ ~initialized
    /\ IF badCleaner(lb, la)
       THEN /\ res' = [NoRes EXCEPT !.op = "New", !.err = "errBadCleaner",
                                    !.args = << sb, lb, la >>]
            /\ UNCHANGED << files, initialized, maxSegBytes, cl, segments,
                            nextId, written >>
       ELSE LET o == openLoop(ReadDir(DOMAIN files), files, << >>, nextId)
            IN IF o.err # "nil"
               THEN /\ res' = [NoRes EXCEPT !.op = "New", !.err = o.err,
                                            !.args = << sb, lb, la >>]
                    /\ files' = o.files
                    /\ UNCHANGED << initialized, maxSegBytes, cl, segments,
                                    nextId, written >>
               ELSE /\ res' = [NoRes EXCEPT !.op = "New",
                                            !.args = << sb, lb, la >>]
                    /\ initialized' = TRUE
                    /\ maxSegBytes' = sb
                    /\ cl' = [maxLogBytes |-> lb, maxLogAge |-> la]
                    /\ IF o.segs = << >>
                       THEN LET r == newSegment(files, now, nextId, now)
                            IN /\ segments' = << r.seg >>
                               /\ files' = r.files
                               /\ nextId' = nextId + 1
                       ELSE /\ \E sorted \in Perms(o.segs) :
                                  /\ IsSortOf(sorted, o.segs)
                                  /\ segments' = sorted
                            /\ files' = o.files
                            /\ nextId' = nextId + Len(o.segs)
                    /\ written' = FileContents(segments', files')
    /\ UNCHANGED << now, nextByte, faults, clean_since, chain >>
    /\ UNCHANGED lockVars

\* Clog.toSplit
toSplit == segments = << >> \/ IsFull(segments[Len(segments)])

\* a split that leaves the earlier active segment as it is
splitKeepingOpen(segs, fs, cf) ==
    LET r == newSegment(fs, now, nextId, now)
    IN [segs |-> Append(segs, r.seg), files |-> r.files]

\* Clog.split: a new segment with baseOffset tNow() at the end of the list,
\* then close of the earlier active segment, whose error is dropped.
\* Gives the list and the directory.
split(segs, fs, cf) ==
    LET r == newSegment(fs, now, nextId, now)
        n == Len(segs)
        closedSegs == IF n = 0 THEN segs
                      ELSE [segs EXCEPT ![n] = segClose(segs[n], cf).seg]
    IN [segs |-> Append(closedSegs, r.seg), files |-> r.files]

CloseFaults == {"none", "sync", "close"}

NFaults(S) == Cardinality({x \in S : x # "none"})

\* a return that comes after the new segment of a roll has been opened
NotInitializedLate(op) ==
    /\ ~initialized
    /\ res' = [NoRes EXCEPT !.op = op, !.err = "errLogNotInitialized"]
    /\ files' = newSegment(files, now, nextId, now).files
    /\ UNCHANGED << now, initialized, maxSegBytes, cl, segments, nextId,
                    nextByte, faults, written, clean_since, chain >>
    /\ UNCHANGED lockVars

\* the first return of Append and of split: the Clog was not built by New
NotInitialized(op) ==
    /\ ~initialized
    /\ res' = [NoRes EXCEPT !.op = op, !.err = "errLogNotInitialized"]
    /\ UNCHANGED << files, now, initialized, maxSegBytes, cl, segments, nextId,
                    nextByte, faults, written, clean_since, chain >>
    /\ UNCHANGED lockVars

\* Clog.split called on its own (the package's tests do); the fault "open"
\* makes its newSegment fail, the other faults are those of segment.close
Split(cf) ==
    \/ cf = "none" /\ NotInitialized("split")
    \/ /\ initialized
       /\ cf # "open" => nextId <= MaxSegs
       /\ faults + NFaults({cf}) <= MaxFaults
       /\ IF cf = "open"
          THEN /\ res' = [NoRes EXCEPT !.op = "split", !.err = "errOpenFile",
                                       !.fault = cf]
               /\ UNCHANGED << segments, files, nextId >>
          ELSE /\ LET r == split(segments, files, cf)
                  IN /\ segments' = r.segs
                     /\ files' = r.files
               /\ nextId' = nextId + 1
               /\ res' = [NoRes EXCEPT !.op = "split", !.fault = cf]
       /\ faults' = faults + NFaults({cf})
       /\ UNCHANGED << now, initialized, maxSegBytes, cl, nextByte, written,
                       clean_since, chain >>
       /\ UNCHANGED lockVars

\* Clog.Append(b), b being the next n bytes; the fault "open" makes the
\* newSegment of split fail, the other faults are those of segment.Append
LogAppend(n, cf, fault, landed) ==
    \/ /\ cf = "none" /\ fault = "none" /\ landed = 0
       /\ NotInitialized("Append")
    \/ /\ initialized
       /\ nextByte + n <= MaxBytes
       /\ (toSplit /\ fault # "open") => nextId <= MaxSegs
       /\ ~toSplit => cf = "none"
       /\ fault = "open" => (toSplit /\ cf = "none")
       /\ fault \in {"write", "short", "truncate"} => landed < n
       /\ fault \notin {"write", "short", "truncate"} => landed = 0
       /\ faults + NFaults({cf}) + NFaults({fault}) <= MaxFaults
       /\ IF fault = "open"
          THEN /\ res' = [NoRes EXCEPT !.op = "Append", !.err = "errOpenFile",
                                       !.fault = fault]
               /\ UNCHANGED << segments, files, nextId, written >>
          ELSE LET b == [i \in 1 .. n |-> nextByte + i]
                   s == IF toSplit THEN split(segments, files, cf)
                        ELSE [segs |-> segments, files |-> files]
                   k == Len(s.segs)
                   a == segAppend(s.segs[k], s.files, b, now, fault, landed)
               IN /\ segments' = [s.segs EXCEPT ![k] = a.seg]
                  /\ files' = a.files
                  /\ nextId' = IF toSplit THEN nextId + 1 ELSE nextId
                  /\ res' = [NoRes EXCEPT !.op = "Append", !.err = a.err,
                                          !.fault = fault]
                  /\ written' = IF a.err = "nil" THEN written \o b ELSE written
       /\ nextByte' = nextByte + n
       /\ faults' = faults + NFaults({cf}) + NFaults({fault})
       /\ UNCHANGED << now, initialized, maxSegBytes, cl, clean_since, chain >>
       /\ UNCHANGED lockVars

\* --------------------------------------------------------------- cleaner
\* a first loop that walks from the oldest segment up
keptFromOldest(vals, i, total, budget) ==
    {k \in 1 .. i : (total + SumSeq(SubSeq(vals, 1, k - 1))) % Wrap < budget}

\* a first loop that keeps a segment when the running total has reached
\* the budget exactly
keptFromReached(vals, i, total, budget) ==
    {k \in 1 .. i : (total + SumSeq(SubSeq(vals, k + 1, i))) % Wrap <= budget}

\* the first loop of cleanByBytes and of cleanByAge, from index i down to 1:
\* the indices whose segment is kept; vals[i] is what segment i adds to the
\* running total, a uint64
RECURSIVE keptFrom(_, _, _, _)
keptFrom(vals, i, total, budget) ==
    IF i = 0 THEN {}
    ELSE (IF total < budget THEN {i} ELSE {})
         \cup keptFrom(vals, i - 1, Add64(total, vals[i]), budget)

\* the second loop of cleanByBytes and of cleanByAge, from index i down to
\* 1: Delete of every segment that is not kept, until one fails; the
\* Delete of the segment failId fails with kind
RECURSIVE deleteFrom(_, _, _, _, _, _)
deleteFrom(segs, fs, kept, i, failId, kind) ==
    IF i = 0 THEN [segs |-> segs, files |-> fs, err |-> "nil"]
    ELSE IF i \in kept THEN deleteFrom(segs, fs, kept, i - 1, failId, kind)
    ELSE LET d == segDelete(segs[i], fs,
                            IF segs[i].id = failId THEN kind ELSE "none")
             segs1 == [segs EXCEPT ![i] = d.seg]
         IN IF d.err # "nil"
            THEN [segs |-> segs1, files |-> d.files, err |-> d.err]
            ELSE deleteFrom(segs1, d.files, kept, i - 1, failId, kind)

\* the elements of segs at the indices of kept, in order
RECURSIVE Pick(_, _, _)
Pick(segs, kept, i) ==
    IF i > Len(segs) THEN << >>
    ELSE (IF i \in kept THEN << segs[i] >> ELSE << >>) \o Pick(segs, kept, i + 1)

\* one pass; gives the returned list (out), the input objects as the
\* pass leaves them (all), the directory and the error
cleanPass(segs, fs, vals, budget, failId, kind) ==
    IF Len(segs) <= 1
    THEN [out |-> segs, all |-> segs, files |-> fs, err |-> "nil"]
    ELSE LET kept == keptFrom(vals, Len(segs), 0, budget)
         IN IF kept # {}
            THEN LET d == deleteFrom(segs, fs, kept, Len(segs), failId, kind)
                 IN IF d.err # "nil"
                    THEN [out |-> d.segs, all |-> d.segs, files |-> d.files,
                          err |-> d.err]
                    ELSE [out |-> Pick(segs, kept, 1), all |-> d.segs,
                          files |-> d.files, err |-> "nil"]
            ELSE [out |-> segs, all |-> segs, files |-> fs, err |-> "nil"]

\* cleaner.cleanByBytes
cleanByBytes(segs, fs, failId, kind) ==
    cleanPass(segs, fs, [i \in 1 .. Len(segs) |-> segs[i].currentSegBytes],
              cl.maxLogBytes, failId, kind)

\* cleaner.cleanByAge; uint64(c.maxLogAge.Nanoseconds()) of a positive
\* duration is the duration
cleanByAge(segs, fs, failId, kind) ==
    cleanPass(segs, fs, [i \in 1 .. Len(segs) |-> segs[i].age],
              cl.maxLogAge, failId, kind)

\* the objects of base as upd leaves them (the same objects are in both)
Merge(base, upd) ==
    [i \in 1 .. Len(base) |->
        IF \E j \in 1 .. Len(upd) : upd[j].id = base[i].id
        THEN upd[CHOOSE j \in 1 .. Len(upd) : upd[j].id = base[i].id]
        ELSE base[i]]

Ids(segs) == [i \in 1 .. Len(segs) |-> segs[i].id]
IdSet(segs) == {segs[i].id : i \in 1 .. Len(segs)}

\* cleaner.clean after a byte pass that returned b with no error
cleanAged(b, a) ==
    IF a.err # "nil"
    THEN [out |-> << >>, all |-> Merge(b.all, a.all), files |-> a.files,
          err |-> a.err, pass |-> 2, byBytes |-> Ids(b.out), byAge |-> << >>]
    ELSE [out |-> a.out, all |-> Merge(b.all, a.all), files |-> a.files,
          err |-> "nil", pass |-> 0, byBytes |-> Ids(b.out),
          byAge |-> Ids(a.out)]

\* cleaner.clean after its byte pass, which returned b
cleanSized(b, failId, kind) ==
    IF b.err # "nil"
    THEN [out |-> << >>, all |-> b.all, files |-> b.files, err |-> b.err,
          pass |-> 1, byBytes |-> << >>, byAge |-> << >>]
    ELSE cleanAged(b, cleanByAge(b.out, b.files, failId, kind))

\* cleaner.clean; pass is the pass that failed (0: none), byBytes and byAge
\* are the lists the passes returned
clean(segs, fs, failId, kind) ==
    IF Len(segs) <= 1
    THEN [out |-> segs, all |-> segs, files |-> fs, err |-> "nil", pass |-> 0,
          byBytes |-> Ids(segs), byAge |-> Ids(segs)]
    ELSE cleanSized(cleanByBytes(segs, fs, failId, kind), failId, kind)

DeleteFaults == {"sync", "close", "remove"}

\* a Clean that stores what cleaner.clean returned whatever the error
CleanedUnchecked(c) ==
    /\ segments' = c.out
    /\ files' = c.files
    /\ res' = [NoRes EXCEPT !.op = "Clean", !.err = c.err, !.pass = c.pass,
                            !.byBytes = c.byBytes, !.byAge = c.byAge,
                            !.ids = Ids(c.out), !.n = Len(segments)]
    /\ clean_since' = IF c.err = "nil" /\ clean_since # "failed"
                      THEN "ok" ELSE "failed"

\* Clog.Clean after cleaner.clean, which returned c: the list is replaced
\* only when there is no error
Cleaned(c) ==
    /\ segments' = IF c.err = "nil" THEN c.out ELSE c.all
    /\ files' = c.files
    /\ res' = [NoRes EXCEPT !.op = "Clean", !.err = c.err, !.pass = c.pass,
                            !.byBytes = c.byBytes, !.byAge = c.byAge,
                            !.ids = Ids(c.out), !.n = Len(segments)]
    /\ clean_since' = IF c.err = "nil" /\ clean_since # "failed"
                      THEN "ok" ELSE "failed"

\* Clog.Clean; the Delete of the segment failId fails with kind
Clean(failId, kind) ==
    /\ initialized
    /\ \/ failId = 0 /\ kind = "none"
       \/ failId \in IdSet(segments) /\ kind \in DeleteFaults
    /\ faults + NFaults({kind}) <= MaxFaults
    /\ Cleaned(clean(segments, files, failId, kind))
    /\ faults' = faults + NFaults({kind})
    /\ UNCHANGED << now, initialized, maxSegBytes, cl, nextId, nextByte,
                    written, chain >>
    /\ UNCHANGED lockVars

\* ------------------------------------------------------------------ Read
\* the ceiling Clog.Read computes from maxToRead
Ceiling(maxToRead) ==
    LET max == ToInt(maxToRead)
    IN IF max <= 0 THEN internalMaxToRead
       ELSE IF max > internalMaxToRead * 10 THEN internalMaxToRead * 10
       ELSE max

\* a loop that also reads the segment whose baseOffset is the offset
RECURSIVE readFromOffset(_, _, _, _, _, _)
readFromOffset(i, offset, max, failId, acc, size) ==
    IF i > Len(segments) THEN acc
    ELSE IF segments[i].baseOffset >= offset
    THEN LET r == segRead(segments[i], files, segments[i].id = failId)
         IN IF r.err # "nil" THEN [acc EXCEPT !.err = r.err]
            ELSE LET acc1 == [data |-> acc.data \o r.data,
                              last |-> segments[i].baseOffset,
                              ids |-> Append(acc.ids, segments[i].id),
                              err |-> "nil"]
                     size1 == size + Len(r.data)
                 IN IF size1 >= max THEN acc1
                    ELSE readFromOffset(i + 1, offset, max, failId, acc1, size1)
    ELSE readFromOffset(i + 1, offset, max, failId, acc, size)

\* a loop that stops only when the size read is beyond the ceiling
RECURSIVE readFromBeyond(_, _, _, _, _, _)
readFromBeyond(i, offset, max, failId, acc, size) ==
    IF i > Len(segments) THEN acc
    ELSE IF segments[i].baseOffset > offset
    THEN LET r == segRead(segments[i], files, segments[i].id = failId)
         IN IF r.err # "nil" THEN [acc EXCEPT !.err = r.err]
            ELSE LET acc1 == [data |-> acc.data \o r.data,
                              last |-> segments[i].baseOffset,
                              ids |-> Append(acc.ids, segments[i].id),
                              err |-> "nil"]
                     size1 == size + Len(r.data)
                 IN IF size1 > max THEN acc1
                    ELSE readFromBeyond(i + 1, offset, max, failId, acc1, size1)
    ELSE readFromBeyond(i + 1, offset, max, failId, acc, size)

\* the loop of Clog.Read from index i on; the segment failId cannot be read
RECURSIVE readFrom(_, _, _, _, _, _)
readFrom(i, offset, max, failId, acc, size) ==
    IF i > Len(segments) THEN acc
    ELSE IF segments[i].baseOffset > offset
    THEN LET r == segRead(segments[i], files, segments[i].id = failId)
         IN IF r.err = "panic"
            THEN [data |-> << >>, last |-> 0, ids |-> << >>, err |-> "panic"]
            ELSE IF r.err # "nil" THEN [acc EXCEPT !.err = r.err]
            ELSE LET acc1 == [data |-> acc.data \o r.data,
                              last |-> segments[i].baseOffset,
                              ids |-> Append(acc.ids, segments[i].id),
                              err |-> "nil"]
                     size1 == size + Len(r.data)
                 IN IF size1 >= max THEN acc1
                    ELSE readFrom(i + 1, offset, max, failId, acc1, size1)
    ELSE readFrom(i + 1, offset, max, failId, acc, size)

MaxToReadArgs == {0, 1, Wrap - 1}

\* Clog.Read(offset, maxToRead); consumer tells whether the call is one of
\* the consumer that resumes from the lastReadOffset it was last given
ReadCall(offset, maxToRead, failId, consumer) ==
    /\ initialized
    /\ failId = 0 \/ failId \in IdSet(segments)
    /\ faults + (IF failId = 0 THEN 0 ELSE 1) <= MaxFaults
    /\ LET r == readFrom(1, offset, Ceiling(maxToRead), failId,
                         [data |-> << >>, last |-> 0, ids |-> << >>,
                          err |-> "nil"], 0)
           got == {r.data[i] : i \in 1 .. Len(r.data)}
       IN /\ res' = [NoRes EXCEPT !.op = IF consumer THEN "Resume" ELSE "Read",
                                  !.err = r.err,
                                  !.offset = offset, !.max = maxToRead,
                                  !.data = r.data, !.last = r.last,
                                  !.ids = r.ids]
          /\ chain' = IF consumer
                      THEN [last |-> r.last, seen |-> chain.seen \cup got]
                      ELSE chain
    /\ faults' = faults + (IF failId = 0 THEN 0 ELSE 1)
    /\ UNCHANGED << files, now, initialized, maxSegBytes, cl, segments, nextId,
                    nextByte, written, clean_since >>
    /\ UNCHANGED lockVars

\* a Read of any caller
Read(offset, maxToRead) == ReadCall(offset, maxToRead, 0, FALSE)

\* the consumer's Read: its first call is from offset 0, every later call
\* from the lastReadOffset that its previous call returned
Resume(offset, maxToRead) ==
    /\ offset = IF chain.last = -1 THEN 0 ELSE chain.last
    /\ ReadCall(offset, maxToRead, 0, TRUE)

\* Append and Clean on a log that New built, no I/O fault injected
Next ==
    \/ Tick
    \/ \E sb \in SegBytesArgs, lb \in LogBytesArgs, la \in LogAgeArgs :
          New(sb, lb, la)
    \/ \E n \in Payloads : LogAppend(n, "none", "none", 0)
    \/ Clean(0, "none")

Spec == Init /\ [][Next]_vars

\* the same with readers, on a log of one configuration; a Read changes
\* nothing but what it returns, so two Reads in a row need not be explored
NextRead ==
    \/ Tick
    \/ New(1, 2, 1)
    \/ \E n \in Payloads : LogAppend(n, "none", "none", 0)
    \/ Clean(0, "none")
    \/ /\ res.op # "Read"
       /\ \E offset \in Times, m \in MaxToReadArgs : Read(offset, m)

SpecRead == Init /\ [][NextRead]_vars

\* the same with one consumer that resumes from where its last Read ended
NextResume ==
    \/ Tick
    \/ New(1, 2, 1)
    \/ \E n \in Payloads : LogAppend(n, "none", "none", 0)
    \/ Clean(0, "none")
    \/ \E offset \in Times : Resume(offset, 0)

SpecResume == Init /\ [][NextResume]_vars

\* Append and the consumer, no Clean; the consumer keeps calling Read
NextConsume ==
    \/ Tick
    \/ New(1, 2, 1)
    \/ \E n \in Payloads : LogAppend(n, "none", "none", 0)
    \/ \E offset \in Times : Resume(offset, 0)

SpecConsume ==
    /\ Init
    /\ [][NextConsume]_vars
    /\ WF_vars(\E offset \in Times : Resume(offset, 0))

\* the same with split called on its own, on a log of one configuration
NextSplit ==
    \/ Tick
    \/ New(1, 2, 1)
    \/ \E n \in Payloads : LogAppend(n, "none", "none", 0)
    \/ Split("none")
    \/ Clean(0, "none")

SpecSplit == Init /\ [][NextSplit]_vars

\* the faults of one Clog.split
SplitFaults == CloseFaults \cup {"open"}

\* Append and split with the I/O faults of split injected
NextSplitFaults ==
    \/ Tick
    \/ New(1, 2, 1)
    \/ \E n \in Payloads : LogAppend(n, "none", "none", 0)
    \/ \E cf \in SplitFaults : Split(cf)

SpecSplitFaults == Init /\ [][NextSplitFaults]_vars

\* the directories of a log that can still split after it has recovered:
\* empty, or holding 0.log (one byte) and 1.log
RecoveredDirs ==
    { NoFiles,
      (<< 0 >> :> [ino |-> -1, data |-> << -1 >>]) @@
          (<< 1 >> :> [ino |-> -2, data |-> << >>]) }

InitRecovered == files \in RecoveredDirs /\ NoLog

\* the same on those directories
SpecRecovered == InitRecovered /\ [][NextSplitFaults]_vars

\* --------------------------------------------------------------- methods
\* segment.Append(b) called on segment i of the list, as the package's
\* tests of the segment call it
SegmentAppend(i, n, fault, landed) ==
    /\ i \in 1 .. Len(segments)
    /\ nextByte + n <= MaxBytes
    /\ fault \in {"write", "short", "truncate"} => landed < n
    /\ fault \notin {"write", "short", "truncate"} => landed = 0
    /\ faults + NFaults({fault}) <= MaxFaults
    /\ LET b == [j \in 1 .. n |-> nextByte + j]
           a == segAppend(segments[i], files, b, now, fault, landed)
       IN /\ segments' = [segments EXCEPT ![i] = a.seg]
          /\ files' = a.files
          /\ res' = [NoRes EXCEPT !.op = "segment.Append", !.err = a.err,
                                  !.fault = fault, !.n = i]
    /\ nextByte' = nextByte + n
    /\ faults' = faults + NFaults({fault})
    /\ UNCHANGED << now, initialized, maxSegBytes, cl, nextId, written,
                    clean_since, chain >>
    /\ UNCHANGED lockVars

\* segment.close called on segment i of the list
SegmentClose(i, cf) ==
    /\ i \in 1 .. Len(segments)
    /\ segments[i].f # 0
    /\ faults + NFaults({cf}) <= MaxFaults
    /\ LET c == segClose(segments[i], cf)
       IN /\ segments' = [segments EXCEPT ![i] = c.seg]
          /\ res' = [NoRes EXCEPT !.op = "segment.close", !.err = c.err,
                                  !.fault = cf, !.n = i]
    /\ faults' = faults + NFaults({cf})
    /\ UNCHANGED << files, now, initialized, maxSegBytes, cl, nextId,
                    nextByte, written, clean_since, chain >>
    /\ UNCHANGED lockVars

\* segment.Delete called on segment i of the list
SegmentDelete(i) ==
    /\ i \in 1 .. Len(segments)
    /\ LET d == segDelete(segments[i], files, "none")
       IN /\ segments' = [segments EXCEPT ![i] = d.seg]
          /\ files' = d.files
          /\ res' = [NoRes EXCEPT !.op = "segment.Delete", !.err = d.err,
                                  !.n = i]
    /\ UNCHANGED << now, initialized, maxSegBytes, cl, nextId, nextByte,
                    faults, written, clean_since, chain >>
    /\ UNCHANGED lockVars

\* the methods of a segment called on the segment that New built
NextSegment ==
    \/ Tick
    \/ New(1, 2, 1)
    \/ \E i \in SegIds, n \in Payloads, fault \in AppendFaults,
          landed \in 0 .. 1 : SegmentAppend(i, n, fault, landed)
    \/ \E i \in SegIds, cf \in CloseFaults : SegmentClose(i, cf)
    \/ \E i \in SegIds : SegmentDelete(i)

\* the one segment of a log built on an empty directory
InitSegment == Init /\ files = NoFiles

SpecSegment == InitSegment /\ [][NextSegment]_vars

\* the faults of one Clog.Append
LogAppendFaults == AppendFaults \cup {"open"}

\* Append, Clean and Read with I/O faults injected, on a log of one
\* configuration
NextFaults ==
    \/ Tick
    \/ New(1, 1, 1)
    \/ \E n \in Payloads, cf \in CloseFaults, fault \in LogAppendFaults,
          landed \in 0 .. 1 : LogAppend(n, cf, fault, landed)
    \/ \E failId \in 0 .. MaxSegs, kind \in DeleteFaults \cup {"none"} :
          Clean(failId, kind)
    \/ /\ res.op # "Read"
       /\ \E failId \in 0 .. MaxSegs : ReadCall(0, 0, failId, FALSE)

SpecFaults == Init /\ [][NextFaults]_vars

\* ------------------------------------------------------------------ open
\* the names a directory to open can hold: 0.log, 1.log, 01.log, 10.log,
\* 64.log (too large for uint64 at this scale), a name with a letter, and
\* a file 1 with another extension
OpenNames ==
    { << 0 >>, << 1 >>, << 0, 1 >>, << 1, 0 >>, << 6, 4 >>, << 11 >>,
      << 1, -1 >> }

\* the directory of the names of S: every file has its own inode, 0.log
\* holds a byte
DirOf(S) ==
    [n \in S |-> [ino |-> 0 - (10 * Len(n) + n[1] + 1),
                  data |-> IF n = << 0 >> THEN << -1 >> ELSE << >>]]

OpenDirs == {DirOf(S) : S \in SUBSET OpenNames}

InitOpen == files \in OpenDirs /\ NoLog

\* New on any of these directories, at any clock reading
NextOpen ==
    \/ Tick
    \/ New(1, 1, 1)

SpecOpen == InitOpen /\ [][NextOpen]_vars

\* ---------------------------------------------------------------- locks
\* The calls of concurrent threads as the locks see them: what a call does
\* to the log between its locks is left out, and the segments whose locks
\* it takes are any segments.
Calls == {"Append", "Clean", "Read"}

\* Append and Clean take Clog.mu with Lock, Read takes it with RLock
Exclusive(c) == c \in {"Append", "Clean"}

AllSegOps == UNION {[1 .. n -> {"R", "W"}] : n \in 0 .. MaxSegOps}

\* the segment locks a call takes, one after the other ("R": RLock, "W":
\* Lock).  Append: IsFull of the tail, then segment.Append.  Clean: the
\* passes read size and age under RLock, then Delete under Lock.  Read:
\* segment.Read of each segment it includes.
SegOps(c) ==
    IF c = "Append"
    THEN {o \in AllSegOps : Len(o) <= 2 /\ (Len(o) = 2 => o = << "R", "W" >>)}
    ELSE IF c = "Read"
    THEN {o \in AllSegOps : \A i \in 1 .. Len(o) : o[i] = "R"}
    ELSE {o \in AllSegOps : o # << >> => o[1] = "R"}

\* an RLock that goes ahead whatever the writers do
rlockAlways == TRUE

\* RWMutex.RLock goes ahead unless a writer has the lock or waits for the
\* readers inside to leave
rlockFree == mu.w = 0

\* thread p calls c: the l.mu.Lock() or l.mu.RLock() that opens it
Begin(p, c, o) ==
    /\ pc[p] = "idle"
    /\ call' = [call EXCEPT ![p] = c]
    /\ ops' = [ops EXCEPT ![p] = o]
    /\ IF Exclusive(c)
       THEN /\ mu' = [mu EXCEPT !.wq = @ \cup {p}]
            /\ pc' = [pc EXCEPT ![p] = "wait"]
       ELSE IF rlockFree
       THEN /\ mu' = [mu EXCEPT !.r = @ \cup {p}]
            /\ pc' = [pc EXCEPT ![p] = "in"]
       ELSE /\ mu' = [mu EXCEPT !.rq = @ \cup {p}]
            /\ pc' = [pc EXCEPT ![p] = "wait"]
    /\ UNCHANGED << smu, hold >>
    /\ UNCHANGED dataVars

\* l.mu.Lock() of p gets ahead of the other writers: from now on no reader
\* enters
Lock(p) ==
    /\ p \in mu.wq
    /\ mu.w = 0
    /\ mu' = [mu EXCEPT !.w = p, !.wq = @ \ {p}]
    /\ UNCHANGED << smu, pc, call, ops, hold >>
    /\ UNCHANGED dataVars

\* l.mu.Lock() of p returns: the readers have left
Enter(p) ==
    /\ pc[p] = "wait"
    /\ mu.w = p
    /\ mu.r = {}
    /\ pc' = [pc EXCEPT ![p] = "in"]
    /\ UNCHANGED << mu, smu, call, ops, hold >>
    /\ UNCHANGED dataVars

\* s.mu.RLock() or s.mu.Lock() of segment s inside the call of p
SegLock(p, s) ==
    /\ pc[p] = "in"
    /\ ops[p] # << >>
    /\ smu[s].w = 0
    /\ IF Head(ops[p]) = "R"
       THEN smu' = [smu EXCEPT ![s].r = @ \cup {p}]
       ELSE /\ smu[s].r = {}
            /\ smu' = [smu EXCEPT ![s].w = p]
    /\ hold' = [hold EXCEPT ![p] = s]
    /\ pc' = [pc EXCEPT ![p] = "seg"]
    /\ UNCHANGED << mu, call, ops >>
    /\ UNCHANGED dataVars

\* a segment method that returns with its lock still taken
SegReturn(p) ==
    /\ pc[p] = "seg"
    /\ ops' = [ops EXCEPT ![p] = Tail(@)]
    /\ hold' = [hold EXCEPT ![p] = 0]
    /\ pc' = [pc EXCEPT ![p] = "in"]
    /\ UNCHANGED << mu, smu, call >>
    /\ UNCHANGED dataVars

\* s.mu.RUnlock() or s.mu.Unlock(): the segment method of p returns
SegUnlock(p) ==
    /\ pc[p] = "seg"
    /\ smu' = [smu EXCEPT ![hold[p]] =
                  [w |-> IF @.w = p THEN 0 ELSE @.w, r |-> @.r \ {p}]]
    /\ ops' = [ops EXCEPT ![p] = Tail(@)]
    /\ hold' = [hold EXCEPT ![p] = 0]
    /\ pc' = [pc EXCEPT ![p] = "in"]
    /\ UNCHANGED << mu, call >>
    /\ UNCHANGED dataVars

\* the deferred l.mu.Unlock() or l.mu.RUnlock(): the call of p returns; the
\* Unlock of a writer lets in the readers that wait
Unlock(p) ==
    /\ pc[p] = "in"
    /\ ops[p] = << >>
    /\ IF Exclusive(call[p])
       THEN /\ mu' = [mu EXCEPT !.w = 0, !.r = mu.rq, !.rq = {}]
            /\ pc' = [q \in Procs |->
                         IF q = p THEN "idle"
                         ELSE IF q \in mu.rq THEN "in" ELSE pc[q]]
       ELSE /\ mu' = [mu EXCEPT !.r = @ \ {p}]
            /\ pc' = [pc EXCEPT ![p] = "idle"]
    /\ call' = [call EXCEPT ![p] = "none"]
    /\ UNCHANGED << smu, ops, hold >>
    /\ UNCHANGED dataVars

\* a step of thread p inside a call
Step(p) ==
    \/ Lock(p)
    \/ Enter(p)
    \/ \E s \in SegIds : SegLock(p, s)
    \/ SegUnlock(p)
    \/ Unlock(p)

\* threads that call Append, Clean and Read at any time
NextLock ==
    \/ \E p \in Procs, c \in Calls : \E o \in SegOps(c) : Begin(p, c, o)
    \/ \E p \in Procs : Lock(p)
    \/ \E p \in Procs : Enter(p)
    \/ \E p \in Procs, s \in SegIds : SegLock(p, s)
    \/ \E p \in Procs : SegUnlock(p)
    \/ \E p \in Procs : Unlock(p)

\* no log yet, the directory empty
InitLock == Init /\ files = NoFiles /\ now = 0

SpecLock == InitLock /\ [][NextLock]_vars

\* the scheduler runs every thread that can take a step, and sync.Mutex
\* hands the lock to a writer that keeps waiting for it
SpecLockFair ==
    /\ SpecLock
    /\ \A p \in Procs : WF_vars(Step(p)) /\ SF_vars(Lock(p))

\* ================================================================ claims

\* the segments of the list have pairwise different base offsets
DistinctBases ==
    \A i, j \in 1 .. Len(segments) :
        i # j => segments[i].baseOffset # segments[j].baseOffset

\* C1: with no Clean so far, after successful Appends the contents of all
\* segment files, concatenated in list order, are the appended payloads in
\* the order the Appends completed (after whatever open found).
C1_FilesAreThePayloads ==
    (initialized /\ clean_since = "none" /\ faults = 0)
        => FileContents(segments, files) = written

\* what C1 says, for the lists whose base offsets are pairwise different
C1_HoldsWithoutTies ==
    (initialized /\ clean_since = "none" /\ faults = 0 /\ DistinctBases)
        => FileContents(segments, files) = written

\* the size of the file of segment i
FileLen(i) ==
    IF segments[i].filePath \in DOMAIN files
    THEN Len(files[segments[i].filePath].data) ELSE 0

\* the segments a Read from offset is about
Eligible(offset) ==
    {i \in 1 .. Len(segments) : segments[i].baseOffset > offset}

\* the size of the files of the segments of S together
RECURSIVE SumFileLen(_)
SumFileLen(S) ==
    IF S = {} THEN 0
    ELSE LET x == CHOOSE y \in S : TRUE IN FileLen(x) + SumFileLen(S \ {x})

\* the segments a Read from offset with ceiling max is to return: those
\* before which the eligible segments have not reached the ceiling
Included(offset, max) ==
    {i \in Eligible(offset) :
        SumFileLen({j \in Eligible(offset) : j < i}) < max}

\* the contents of the files of the segments of S, in list order
RECURSIVE ContentsOf(_, _)
ContentsOf(S, i) ==
    IF i > Len(segments) THEN << >>
    ELSE (IF i \in S THEN files[segments[i].filePath].data ELSE << >>)
         \o ContentsOf(S, i + 1)

\* C2: a Read that returns no error returns the contents, in list order, of
\* the segments whose baseOffset is greater than offset, up to and
\* including the first at which the size read reaches the ceiling, and the
\* baseOffset of the last of them (0 when there is none).
C2_ReadReturnsSegmentsAfterOffset ==
    (res.op = "Read" /\ res.err = "nil")
        => LET inc == Included(res.offset, Ceiling(res.max))
           IN /\ \A i \in inc : segments[i].filePath \in DOMAIN files
              /\ res.data = ContentsOf(inc, 1)
              /\ res.last = IF inc = {} THEN 0
                            ELSE segments[SetMax(inc)].baseOffset
              /\ \A i \in 1 .. Len(segments) :
                    segments[i].baseOffset = res.offset => i \notin inc

\* a Read that returned a segment, left one out because its baseOffset is
\* the offset, and left one out because the ceiling was reached
C2_Witness ==
    /\ res.op = "Read" /\ res.err = "nil"
    /\ Len(res.ids) >= 1
    /\ \E i \in 1 .. Len(segments) : segments[i].baseOffset = res.offset
    /\ Eligible(res.offset) # Included(res.offset, Ceiling(res.max))


\* the bytes of a sequence
Bytes(d) == {d[i] : i \in 1 .. Len(d)}

\* C3: for the consumer that passes each Read the lastReadOffset its
\* previous Read returned, no Read returns bytes that an earlier Read of
\* that consumer returned, whatever is appended in between.
C3_NothingReadTwice ==
    [][res'.op = "Resume" => Bytes(res'.data) \cap chain.seen = {}]_vars

\* the list is in increasing order of baseOffset
InOrder ==
    \A i \in 1 .. Len(segments) - 1 :
        segments[i].baseOffset < segments[i + 1].baseOffset

\* C4, as the spec states it, for a list in order and a Read that returned
\* a segment: the consumer's Read of the lastReadOffset L that its previous
\* Read returned, with nothing done to the log in between, returns an
\* empty payload, lastReadOffset 0 and no error.
C4_ReadOfLastReturnsNothing ==
    [][(/\ res.op = "Resume" /\ res.err = "nil" /\ res.ids # << >>
        /\ InOrder
        /\ res'.op = "Resume")
          => (res'.data = << >> /\ res'.last = 0 /\ res'.err = "nil")]_vars

\* C4, amended: when the consumer's previous Read returned L and no segment
\* of the list has a baseOffset greater than L, its Read of L returns an
\* empty payload, lastReadOffset 0 and no error.
C4_ReadOfLastAtTheEnd ==
    [][(/\ res'.op = "Resume"
        /\ chain.last # -1
        /\ \A i \in 1 .. Len(segments) : segments[i].baseOffset <= chain.last)
          => (res'.data = << >> /\ res'.last = 0 /\ res'.err = "nil")]_vars

\* the consumer has been given bytes, and its Read of the lastReadOffset it
\* was given, which is not 0, returned nothing
C4_Witness ==
    /\ res.op = "Resume" /\ res.err = "nil"
    /\ res.offset > 0
    /\ res.data = << >> /\ res.last = 0
    /\ chain.seen # {}
    /\ \E i \in 1 .. Len(segments) : segments[i].baseOffset = res.offset

\* C5: Clean leaves at least one segment in the list, and the last segment
\* of the list after Clean is the segment that was last before it.
C5_CleanRetainsTheTail ==
    [][res'.op = "Clean"
          => /\ Len(segments') >= 1
             /\ segments'[Len(segments')] = segments[Len(segments)]]_vars

\* a Clean of a list of several segments left the tail alone in the list
C5_Witness ==
    /\ res.op = "Clean" /\ res.err = "nil"
    /\ res.n >= 2
    /\ Len(segments) = 1

\* the sum, as a number, of the elements of vals after index i
SumAfter(vals, i) == SumSeq(SubSeq(vals, i + 1, Len(vals)))

\* the sizes and the ages that the segments of the list hold
SizesOf(segs) == [i \in 1 .. Len(segs) |-> segs[i].currentSegBytes]
AgesOf(segs) == [i \in 1 .. Len(segs) |-> segs[i].age]

\* the segments of segs whose identity is in ids, in order
RECURSIVE Among(_, _)
Among(segs, ids) ==
    IF segs = << >> THEN << >>
    ELSE (IF Head(segs).id \in ids THEN << Head(segs) >> ELSE << >>)
         \o Among(Tail(segs), ids)

C7_AgePassKeeps ==
    [][(res'.op = "Clean" /\ res'.err = "nil")
          => LET given == Among(segments, Bytes(res'.byBytes))
                 ages == AgesOf(given)
             IN /\ \A i \in 1 .. Len(given) :
                       (given[i].id \in Bytes(res'.byAge))
                           <=> (SumAfter(ages, i) < cl.maxLogAge)
                /\ SumSeq(ages) <= cl.maxLogAge => res'.byAge = Ids(given)]_vars

\* C8: a successful Clean of a list of two or more segments whose sizes sum
\* to more than maxLogBytes removes at least one segment from the list and
\* its file from the directory.
C8_CleanShrinksALargeLog ==
    [][(/\ res'.op = "Clean" /\ res'.err = "nil"
        /\ Len(segments) >= 2
        /\ SumSeq(SizesOf(segments)) > cl.maxLogBytes)
          => /\ Len(segments') < Len(segments)
             /\ DOMAIN files' # DOMAIN files]_vars

\* C9: a successful Clean of a list of two or more segments whose first
\* segment was created more than maxLogAge before the call removes at
\* least one segment from the list and its file from the directory.
C9_CleanShrinksAnOldLog ==
    [][(/\ res'.op = "Clean" /\ res'.err = "nil"
        /\ Len(segments) >= 2
        /\ now - segments[1].baseOffset > cl.maxLogAge)
          => /\ Len(segments') < Len(segments)
             /\ DOMAIN files' # DOMAIN files]_vars

\* C10: after a successful Clean no evicted segment is in the list and no
\* file has its name, and the file of every segment left in the list is
\* there with the contents it had.
C10_CleanDeletesOnlyTheEvicted ==
    [][(res'.op = "Clean" /\ res'.err = "nil")
          => \A i \in 1 .. Len(segments) :
                IF segments[i].id \in IdSet(segments')
                THEN /\ segments[i].filePath \in DOMAIN files'
                     /\ segments[i].filePath \in DOMAIN files
                            => files'[segments[i].filePath]
                                 = files[segments[i].filePath]
                ELSE segments[i].filePath \notin DOMAIN files']_vars

\* what C10 says, for the lists whose base offsets are pairwise different
\* and whose files are all there
C10_HoldsWithoutTies ==
    [][(/\ res'.op = "Clean" /\ res'.err = "nil"
        /\ DistinctBases
        /\ \A i \in 1 .. Len(segments) : segments[i].filePath \in DOMAIN files)
          => \A i \in 1 .. Len(segments) :
                IF segments[i].id \in IdSet(segments')
                THEN /\ segments[i].filePath \in DOMAIN files'
                     /\ files'[segments[i].filePath]
                          = files[segments[i].filePath]
                ELSE segments[i].filePath \notin DOMAIN files']_vars

\* C11: in every state of a log that New returned, the base offsets of the
\* segments increase strictly along the list.
C11_BaseOffsetsIncrease == initialized => InOrder

\* C12: once New has returned a log, its list of segments has at least one
\* element in every state, whether the calls made on it failed or not.
C12_ListNeverEmpty == initialized => Len(segments) >= 1

\* a Clean whose Delete failed has returned and the list is as long as before
C12_Witness ==
    /\ initialized
    /\ res.op = "Clean"
    /\ res.err # "nil"
    /\ res.n >= 2
    /\ Len(segments) = res.n
\* the last n elements of d
Last(d, n) == SubSeq(d, Len(d) - n + 1, Len(d))

\* the file of segment s holds d and then b, where the directory fs still
\* has the file
HoldsThen(s, fs, d, b) ==
    (s.filePath \in DOMAIN fs /\ fs[s.filePath].ino = s.f)
        => fs[s.filePath].data = d \o b

\* the Append of the n bytes after nextByte, the tail holding at least
\* max_seg_bytes (full) or fewer at the start of the call
AppendRolls(n, k, full) ==
    LET b == [i \in 1 .. n |-> nextByte + i]
        tail == segments'[Len(segments')]
    IN /\ Len(segments') = IF full THEN k + 1 ELSE k
       /\ SubSeq(Ids(segments'), 1, k) = Ids(segments)
       /\ Len(b) <= tail.currentSegBytes
       /\ ~full => /\ tail.currentSegBytes
                        = segments[k].currentSegBytes + n
                   /\ HoldsThen(tail, files', files[tail.filePath].data, b)
       /\ full => /\ tail.id \notin IdSet(segments)
                  /\ tail.filePath \in DOMAIN files'
                  /\ Last(files'[tail.filePath].data, n) = b

\* C13: an Append that returns nil adds a segment exactly when the tail held
\* at least max_seg_bytes at the start of the call, and then it adds one
\* segment at the end of the list and writes its payload there; otherwise the
\* whole payload goes to the tail, however far beyond max_seg_bytes it takes it.
C13_AppendRollsOnlyWhenFull ==
    [][(nextByte' # nextByte /\ res'.err = "nil")
          => AppendRolls(nextByte' - nextByte, Len(segments),
                 segments[Len(segments)].currentSegBytes >= maxSegBytes)]_vars

\* an Append took a segment beyond max_seg_bytes, and the next one rolled
C13_Witness ==
    /\ res.op = "Append"
    /\ res.err = "nil"
    /\ Len(segments) >= 2
    /\ segments[Len(segments) - 1].currentSegBytes > maxSegBytes
    /\ segments[Len(segments)].currentSegBytes >= 1
    /\ segments[Len(segments)].filePath
           # segments[Len(segments) - 1].filePath
\* what a read of the file of segment s finds in the directory fs
StoredIn(s, fs) ==
    IF s.filePath \in DOMAIN fs THEN fs[s.filePath].data ELSE << -1 >>

\* C14: an Append leaves the current_bytes and the contents of every segment
\* but the last of the list it writes to as they were.
C14_AppendWritesOnlyTheTail ==
    [][nextByte' # nextByte
          => \A j \in 1 .. Len(segments') - 1 :
                /\ segments'[j].currentSegBytes = segments[j].currentSegBytes
                /\ StoredIn(segments'[j], files') = StoredIn(segments[j], files)
      ]_vars

\* C14 holds of the Appends to a list of segments with distinct base offsets
C14_HoldsWithoutTies ==
    [][(nextByte' # nextByte /\ DistinctBases')
          => \A j \in 1 .. Len(segments') - 1 :
                /\ segments'[j].currentSegBytes = segments[j].currentSegBytes
                /\ StoredIn(segments'[j], files') = StoredIn(segments[j], files)
      ]_vars
\* thread p is between the Lock or RLock of Clog.mu and its Unlock
InCS(p) == pc[p] \in {"in", "seg"}

\* C15: two threads are inside their calls at the same time only when both
\* are in Read (an Append with its split, or a Clean, is inside alone).
C15_WritersAreAlone ==
    \A p, q \in Procs :
        (p # q /\ InCS(p) /\ InCS(q)) => (call[p] = "Read" /\ call[q] = "Read")

\* two Reads are inside at the same time
C15_Witness ==
    \E p, q \in Procs :
        /\ p # q
        /\ InCS(p) /\ call[p] = "Read"
        /\ InCS(q) /\ call[q] = "Read"

\* C18: under fair scheduling every call that a thread has started returns.
C18_EveryCallReturns ==
    \A p \in Procs : (pc[p] # "idle") ~> (pc[p] = "idle")

\* a Clean waits for Clog.mu while the Append that has it holds the lock of
\* a segment
C18_Witness ==
    \E p, q \in Procs :
        /\ pc[p] = "wait" /\ call[p] = "Clean" /\ p \in mu.wq
        /\ pc[q] = "seg" /\ call[q] = "Append" /\ smu[hold[q]].w = q

\* C16: with no I/O fault injected, no Append, Clean or Read returns an
\* error, in whatever order the calls of the threads take effect, and what a
\* Read returns is made of bytes found at open or handed to an Append that
\* returned nil.
C16_NoCallFails ==
    (initialized /\ faults = 0)
        => /\ res.err = "nil"
           /\ res.op = "Read"
                 => \A i \in 1 .. Len(res.data) :
                       \E j \in 1 .. Len(written) : res.data[i] = written[j]
\* C17: a Read returns the payload of every earlier Append that returned
\* nil, when the segment the payload went to is still in the list, has a
\* baseOffset above the Read's offset, and is not beyond the segment at
\* which the Read reached its ceiling.
C17_ReadSeesAppended ==
    res.op = "Read"
        => \A i \in Included(res.offset, Ceiling(res.max)) :
              \A k \in 1 .. Len(segments[i].got) :
                 \E j \in 1 .. Len(res.data) : res.data[j] = segments[i].got[k]
\* the .log entries of the directory
LogNames == {n \in DOMAIN files : HasLogExt(n)}

\* the list that New left: one segment for every .log entry, the base
\* offsets strictly increasing, so that the tail has the largest; one new
\* segment when there is no .log entry
OpenedInOrder ==
    IF LogNames = {}
    THEN Len(segments') = 1 /\ segments'[1].baseOffset = now
    ELSE /\ Len(segments') = Cardinality(LogNames)
         /\ {segments'[i].baseOffset : i \in 1 .. Len(segments')}
               = {ParseUint(n) : n \in LogNames}
         /\ \A i \in 1 .. Len(segments') - 1 :
               segments'[i].baseOffset < segments'[i + 1].baseOffset

\* C19: New on a directory whose .log entries all have stems that parse
\* leaves one segment per entry in strictly increasing order of base offset,
\* and one new segment when the directory has no .log entry.
C19_OpenRecoversInOrder ==
    [][(~initialized /\ res'.op = "New"
           /\ \A n \in LogNames : ParseUint(n) >= 0)
          => (res'.err = "nil" /\ initialized' /\ OpenedInOrder)]_vars

\* C19 holds of the directories whose names are what FormatUint gives
C19_HoldsOfCanonicalNames ==
    [][(~initialized /\ res'.op = "New"
           /\ \A n \in LogNames :
                 ParseUint(n) >= 0 /\ FormatUint(ParseUint(n)) = n)
          => (res'.err = "nil" /\ initialized' /\ OpenedInOrder)]_vars
\* the orders in which the names of S can be enumerated
RECURSIVE Orders(_)
Orders(S) ==
    IF S = {} THEN {<< >>}
    ELSE UNION {{<< x >> \o o : o \in Orders(S \ {x})} : x \in S}

\* C20: New on a directory with a .log entry whose stem does not parse
\* returns the parse error and leaves the list of segments empty, and the
\* loop of open ends in the parse error in whatever order the entries come.
C20_MisnamedIsRejected ==
    [][(~initialized /\ res'.op = "New"
           /\ \E n \in LogNames : ParseUint(n) < 0)
          => /\ res'.err = "errParseToInt64"
             /\ segments' = << >>
             /\ ~initialized'
             /\ \A e \in Orders(DOMAIN files) :
                   openLoop(e, files, << >>, nextId).err = "errParseToInt64"
      ]_vars

\* New has returned the parse error on a directory that also holds .log
\* entries that parse, one of which open had turned into a segment
C20_Witness ==
    /\ res.op = "New"
    /\ res.err = "errParseToInt64"
    /\ segments = << >>
    /\ \E n, m \in LogNames :
          ParseUint(n) >= 0 /\ ParseUint(m) < 0 /\ NameLess(n, m)
\* C21: the current_bytes of every segment of the list that has not been
\* deleted is the length of its file, after whatever Appends failed.
C21_BytesAreTheFileLength ==
    initialized
        => \A i \in 1 .. Len(segments) :
              segments[i].f # 0
                 => /\ segments[i].filePath \in DOMAIN files
                    /\ segments[i].currentSegBytes
                          = Len(files[segments[i].filePath].data)
\* C22: an Append whose write stores fewer bytes than the payload returns an
\* error and leaves current_bytes as it was, and when its truncate succeeds
\* the file of the tail is current_bytes long again.
C22_ShortWriteIsReported ==
    [][(nextByte' # nextByte /\ res'.fault \in {"short", "truncate"})
          => LET tail == segments'[Len(segments')]
             IN /\ res'.err # "nil"
                /\ Len(segments') = Len(segments)
                      => tail.currentSegBytes
                            = segments[Len(segments)].currentSegBytes
                /\ Len(segments') # Len(segments) => tail.got = << >>
                /\ res'.fault = "short"
                      => Len(files'[tail.filePath].data) = tail.currentSegBytes
      ]_vars
\* the age of a segment of base offset b at clock reading t, never wrapped
ClampedAge(b, t) == IF b > t THEN 0 ELSE t - b

\* C23: the segments New builds, the segment a roll adds, and the tail after
\* an Append that returned nil have the age now - base_offset, and 0 when
\* the base offset is later than now.
C23_AgeNeverWraps ==
    [][/\ (res'.op = "New" /\ initialized')
            => \A i \in 1 .. Len(segments') :
                  segments'[i].age = ClampedAge(segments'[i].baseOffset, now)
       /\ (nextByte' # nextByte /\ res'.err = "nil")
            => LET tail == segments'[Len(segments')]
               IN tail.age = ClampedAge(tail.baseOffset, now)
      ]_vars
\* C24: on a Clog that New did not build, Append and split return the
\* not-initialized error and change neither the list nor the directory.
C24_NotInitializedChangesNothing ==
    [][(~initialized /\ res'.op \in {"Append", "split"})
          => /\ res'.err = "errLogNotInitialized"
             /\ segments' = segments
             /\ files' = files
             /\ ~initialized'
      ]_vars

\* split has returned the error on a Clog that New did not build, in a
\* directory that holds files
C24_Witness ==
    /\ ~initialized
    /\ res.op = "split"
    /\ res.err = "errLogNotInitialized"
    /\ segments = << >>
    /\ files # NoFiles
\* C25: New returns errBadCleaner exactly when maxLogBytes is zero or
\* maxLogAge is zero or negative, and then it returns no log and leaves the
\* directory as it was.
C25_BadCleanerIsRejected ==
    [][res'.op = "New"
          => /\ res'.err = "errBadCleaner"
                   <=> (res'.args[2] = 0 \/ res'.args[3] <= 0)
             /\ res'.err = "errBadCleaner"
                   => (~initialized' /\ segments' = << >> /\ files' = files)
      ]_vars

\* New has returned errBadCleaner for a negative maxLogAge, in an empty
\* directory that is still empty
C25_Witness ==
    /\ res.op = "New"
    /\ res.err = "errBadCleaner"
    /\ res.args[2] > 0
    /\ res.args[3] < 0
    /\ files = NoFiles
    /\ ~initialized
\* the ceiling as the spec gives it
CappedCeiling(m) ==
    IF m = 0 THEN internalMaxToRead
    ELSE IF m > 10 * internalMaxToRead THEN 10 * internalMaxToRead ELSE m

\* C26: the ceiling of a Read is the internal constant for maxToRead = 0 and
\* otherwise the smaller of maxToRead and ten times the internal constant.
C26_CeilingIsCapped ==
    res.op = "Read" => Ceiling(res.max) = CappedCeiling(res.max)

\* C26 holds of the values of maxToRead below 2^63
C26_HoldsBelowTheSignBit ==
    \A m \in 0 .. (Wrap \div 2 - 1) : Ceiling(m) = CappedCeiling(m)

\* the size of the last segment that a Read returned
LastLen ==
    IF res.ids = << >> THEN 0
    ELSE LET id == res.ids[Len(res.ids)]
             i == CHOOSE j \in 1 .. Len(segments) : segments[j].id = id
         IN FileLen(i)

\* C27: a Read that returns no error and whose eligible segments total at least the ceiling returns
\* at least the ceiling and less than the ceiling plus the size of the last
\* segment it includes; a Read whose eligible segments total less than the
\* ceiling returns all of them.
C27_ReadStopsAtASegment ==
    (res.op = "Read" /\ res.err = "nil")
        => LET max == Ceiling(res.max)
               all == Eligible(res.offset)
           IN IF SumFileLen(all) >= max
              THEN /\ Len(res.data) >= max
                   /\ Len(res.data) - LastLen < max
              ELSE /\ \A i \in all : segments[i].filePath \in DOMAIN files
                   /\ res.data = ContentsOf(all, 1)
                   /\ Len(res.ids) = Cardinality(all)

\* a Read from before three segments that returned two of them and more
\* bytes than the ceiling
C27_Witness ==
    /\ res.op = "Read" /\ res.err = "nil"
    /\ Cardinality(Eligible(res.offset)) = 3
    /\ Len(res.ids) = 2
    /\ Len(res.data) > Ceiling(res.max)

\* the segments of segs that have not been deleted
Survivors(segs) == SelectSeq(segs, LAMBDA s : s.f # 0)

\* C28: a clean in which the Delete of an evicted segment fails returns the
\* error, and with it the segments that survive.
C28_SurvivorsComeWithTheError ==
    [][(res'.op = "Clean" /\ res'.err # "nil")
          => /\ res'.pass \in {1, 2}
             /\ res'.ids = Ids(Survivors(segments'))
      ]_vars

\* what cleaner.clean returns with an error is the empty list, and the log
\* keeps every segment it had, the deleted ones too
C28_NothingComesWithTheError ==
    [][(res'.op = "Clean" /\ res'.err # "nil")
          => /\ res'.ids = << >>
             /\ Ids(segments') = Ids(segments)
             /\ Survivors(segments') # << >>
      ]_vars

\* the first n of the segments a Read from offset is about
FirstEligible(offset, n) ==
    {i \in Eligible(offset) :
        Cardinality({j \in Eligible(offset) : j < i}) < n}

\* C29: a Read in which reading a segment fails returns the error, the
\* contents of the segments it read before that one and the baseOffset of
\* the last of them (0 when there is none); it reads no segment after the
\* one that failed.
C29_ReadReturnsWhatItReadBeforeTheError ==
    (res.op = "Read" /\ res.err # "nil")
        => LET n == Len(res.ids)
               read == FirstEligible(res.offset, n)
           IN /\ res.err = "errSegmentRead"
              /\ n < Cardinality(Eligible(res.offset))
              /\ res.ids = Ids(Pick(segments, read, 1))
              /\ \A i \in read : segments[i].filePath \in DOMAIN files
              /\ res.data = ContentsOf(read, 1)
              /\ res.last = IF read = {} THEN 0
                            ELSE segments[SetMax(read)].baseOffset

\* no segment of the list has been deleted
NoneDeleted == \A i \in 1 .. Len(segments) : segments[i].f # 0

\* C29 holds of the lists that hold no deleted segment
C29_HoldsWhenNoneIsDeleted ==
    NoneDeleted => C29_ReadReturnsWhatItReadBeforeTheError


\* segment s is open on the file that has its name in fs
Writable(s, fs) ==
    /\ s.f # 0
    /\ ~s.closed
    /\ s.filePath \in DOMAIN fs
    /\ fs[s.filePath].ino = s.f

\* the bytes of the Append that takes nextByte to m
Payload(m) == [i \in 1 .. m - nextByte |-> nextByte + i]

\* C30: after a Clean that returned no error the last segment of the list
\* is open and writable, and an Append that follows returns no error and
\* leaves its payload at the end of the file of the last segment.
C30_AppendAfterCleanSucceeds ==
    [][(res.op = "Clean" /\ res.err = "nil")
          => /\ Writable(segments[Len(segments)], files)
             /\ nextByte' # nextByte
                   => LET tail == segments'[Len(segments')]
                          b == Payload(nextByte')
                      IN /\ res'.err = "nil"
                         /\ tail.filePath \in DOMAIN files'
                         /\ Len(files'[tail.filePath].data) >= Len(b)
                         /\ Last(files'[tail.filePath].data, Len(b)) = b
      ]_vars

\* every segment of the list has its own file, under its handle
OwnFiles ==
    /\ DistinctBases
    /\ \A i \in 1 .. Len(segments) :
          /\ segments[i].filePath \in DOMAIN files
          /\ files[segments[i].filePath].ino = segments[i].f

\* C30 holds of the lists in which every segment has its own file
C30_HoldsOfOwnFiles ==
    [][(res.op = "Clean" /\ res.err = "nil" /\ OwnFiles)
          => /\ Writable(segments[Len(segments)], files)
             /\ nextByte' # nextByte
                   => LET tail == segments'[Len(segments')]
                          b == Payload(nextByte')
                      IN /\ res'.err = "nil"
                         /\ tail.filePath \in DOMAIN files'
                         /\ Len(files'[tail.filePath].data) >= Len(b)
                         /\ Last(files'[tail.filePath].data, Len(b)) = b
      ]_vars

\* C31: the consumer that starts with Read(0) and passes each Read the
\* lastReadOffset its previous Read returned eventually receives every
\* byte of every Append that returned no error, no Clean being called.
C31_ConsumerGetsEveryByte ==
    \A b \in 1 .. MaxBytes :
        [](b \in Bytes(written) => <>(b \in chain.seen))

\* no segment of the list has the base offset 0
AboveZero == \A i \in 1 .. Len(segments) : segments[i].baseOffset > 0

\* C31 holds for as long as the list is in increasing order of baseOffset
\* and holds no segment of base offset 0
C31_HoldsInOrderAboveZero ==
    \A b \in 1 .. MaxBytes :
        [](b \in Bytes(written)
              => <>(b \in chain.seen \/ ~AboveZero \/ ~InOrder))

\* C32: every segment of the list has a file handle and a file of its name
\* in the directory, after a Clean that failed part-way too.
C32_ListedSegmentsHaveFiles ==
    \A i \in 1 .. Len(segments) :
        /\ segments[i].f # 0
        /\ segments[i].filePath \in DOMAIN files

\* C32 holds until a Clean is called
C32_HoldsBeforeClean ==
    clean_since = "none" => C32_ListedSegmentsHaveFiles

\* what a split that has run to its end leaves: one more segment, of base
\* offset tNow(), open, at the end of the list; the earlier segments as
\* they were but for the earlier active one, which is closed unless its
\* close failed
SplitAdded ==
    LET n == Len(segments)
    IN /\ res'.err = "nil"
       /\ Len(segments') = n + 1
       /\ segments'[n + 1].baseOffset = now
       /\ segments'[n + 1].f # 0
       /\ ~segments'[n + 1].closed
       /\ segments'[n + 1].filePath \in DOMAIN files'
       /\ \A i \in 1 .. n - 1 : segments'[i] = segments[i]
       /\ segments'[n]
             = [segments[n] EXCEPT
                   !.closed = @ \/ res'.fault \notin {"sync", "close"}]

\* C33: split on an initialized log adds one segment of base offset now at
\* the end of the list, the earlier tail being full or not; the new segment
\* is the active one and the earlier active one is closed, a failure of its
\* close being ignored.
C33_SplitAddsOneSegment ==
    [][(initialized /\ res'.op = "split") => SplitAdded]_vars

\* C33 amended: ... unless the new segment cannot be made; split then
\* returns the error of newSegment and leaves the list as it was.
C33_SplitAddsOneSegmentUnlessOpenFails ==
    [][(initialized /\ res'.op = "split")
          => IF res'.fault = "open"
             THEN /\ res'.err = "errOpenFile"
                  /\ segments' = segments
             ELSE SplitAdded
      ]_vars

\* a split of a tail that was not full has returned; the close of that
\* tail failed and it is still open behind the new tail
C33_Witness ==
    /\ res.op = "split" /\ res.err = "nil" /\ res.fault = "sync"
    /\ Len(segments) >= 2
    /\ ~segments[Len(segments) - 1].closed
    /\ ~IsFull(segments[Len(segments) - 1])
    /\ ~segments[Len(segments)].closed

\* the number of segments New built: one for each file it found (the files
\* that were there before New have the inodes below 0), one new segment
\* when it found none
RecoveredCount ==
    LET found == {n \in DOMAIN files : files[n].ino < 0}
    IN IF found = {} THEN 1 ELSE Cardinality(found)

\* the number of splits that have added a segment (each takes one id)
SplitCount == nextId - 1 - RecoveredCount

IsSuffixOf(ids, segs) ==
    \E k \in 0 .. Len(segs) : ids = Ids(SubSeq(segs, k + 1, Len(segs)))

\* C36: what each pass of clean keeps, and what clean returns, is the last
\* segments of the list it was given, in their order: when a segment is
\* evicted, every segment before it is evicted too.
C36_SurvivorsAreTheLast ==
    [][(res'.op = "Clean" /\ res'.err = "nil")
          => /\ IsSuffixOf(res'.byBytes, segments)
             /\ IsSuffixOf(res'.byAge, segments)
             /\ IsSuffixOf(Ids(segments'), segments)
      ]_vars

\* C36 holds of the byte pass, and of the age pass when the ages of the
\* list sum to less than 2^64
C36_HoldsWithoutWrap ==
    [][(res'.op = "Clean" /\ res'.err = "nil")
          => /\ IsSuffixOf(res'.byBytes, segments)
             /\ SumSeq(AgesOf(segments)) < Wrap
                   => IsSuffixOf(res'.byAge, segments)
      ]_vars

\* C37: a segment.Append that returns an error (of Write, of a short write,
\* of Sync) leaves currentSegBytes as it was.
C37_BytesCountOnlyFlushedAppends ==
    [][(res'.op = "segment.Append" /\ res'.err # "nil")
          => segments'[res'.n].currentSegBytes
                = segments[res'.n].currentSegBytes
      ]_vars

\* C37 holds of the Appends that fail before Sync
C37_HoldsBeforeSync ==
    [][(res'.op = "segment.Append" /\ res'.err \notin {"nil", "errSegmentSync"})
          => segments'[res'.n].currentSegBytes
                = segments[res'.n].currentSegBytes
      ]_vars

\* a Read from offset 0 has returned no error, on a list whose files hold
\* less than the ceiling together
ReadOfSmallLogFromZero ==
    /\ res.op = "Read" /\ res.err = "nil"
    /\ res.offset = 0
    /\ SumFileLen(1 .. Len(segments)) < Ceiling(res.max)

\* C38: a Read from offset 0 on a log that holds less than the ceiling
\* returns the contents of every segment of the list, whatever the base
\* offsets of the segments, 0 included.
C38_ReadFromZeroReturnsAll ==
    ReadOfSmallLogFromZero
        => res.data = FileContents(segments, files)

\* C38 holds of the lists that hold no segment of base offset 0
C38_HoldsAboveZero ==
    (ReadOfSmallLogFromZero /\ AboveZero) => C38_ReadFromZeroReturnsAll

\* C39: a Clean called right after a Clean that returned no error evicts
\* no segment: it returns no error and leaves the list and the files as
\* they are.
C39_CleanTwiceIsCleanOnce ==
    [][(res.op = "Clean" /\ res.err = "nil" /\ res'.op = "Clean")
          => /\ res'.err = "nil"
             /\ segments' = segments
             /\ files' = files
      ]_vars

\* C39 holds when the ages of the list sum to less than 2^64
C39_HoldsWithoutWrap ==
    [][(res.op = "Clean" /\ res.err = "nil" /\ res'.op = "Clean"
           /\ SumSeq(AgesOf(segments)) < Wrap)
          => /\ res'.err = "nil"
             /\ segments' = segments
             /\ files' = files
      ]_vars

\* the segment at index i before the step is the one at index j after it,
\* with another age
AgeChanged(i, j) ==
    /\ segments[i].id = segments'[j].id
    /\ segments[i].age # segments'[j].age

\* C40: the stored age of a segment that exists changes only in an Append
\* to it that returns no error; split, close, Read and Clean change the
\* age of no segment.
C40_AgeChangesOnlyOnAppend ==
    [][\A i \in 1 .. Len(segments), j \in 1 .. Len(segments') :
          AgeChanged(i, j)
             => /\ res'.op = "Append"
                /\ res'.err = "nil"
                /\ j = Len(segments')
      ]_vars

\* C40 holds of every step but the Append whose Sync fails
C40_HoldsBeforeSync ==
    [][\A i \in 1 .. Len(segments), j \in 1 .. Len(segments') :
          AgeChanged(i, j)
             => /\ res'.op = "Append"
                /\ res'.err = "nil" \/ res'.fault = "sync"
                /\ j = Len(segments')
      ]_vars
====
